---------------------------- MODULE Spec2Model ----------------------------
(* Model of the gtags-hopper editor extension (src/src/extension.ts, the   *)
(* current version of the file, lines 397-1243): the jump history          *)
(* (OptimizedHistory), the configuration cache, the editor cache and the   *)
(* jumpToDefinition, jumpToReferences and jumpBack command handlers with   *)
(* the local fallback search.                                              *)
EXTENDS Integers, Sequences, FiniteSets, TLC

(***************************************************************************)
(* Bounds of the model.                                                    *)
(***************************************************************************)
\* pushes made in one behaviour of SpecHistory
MaxPushes == 5
\* capacities 1..MaxCapacity are tried by SpecHistory
MaxCapacity == 2
\* Spec: the items array of the history holds at most MaxItems entries (the
\* code never shortens it but by pop)
MaxItems == 3
\* SpecRequest: a document has 1..MaxDocLines lines
MaxDocLines == 2
\* SpecRequest: the external tool prints 0..MaxOutputLines lines
MaxOutputLines == 2
\* SpecFunctions: an output line given to the parser has 0..MaxParseFields
\* fields
MaxParseFields == 4
\* SpecFunctions: searchSymbolInRange is given documents of 1..MaxSearchLines
\* lines
MaxSearchLines == 3
\* SpecFunctions: getCurrentFunctionScope and the local fallback are given
\* documents of 1..MaxScopeLines lines
MaxScopeLines == 3
\* SpecEditors: at most MaxEditors editors are visible at a time
MaxEditors == 2
\* SpecEquivalence: a run of the two histories has 0..MaxHistoryOps calls
MaxHistoryOps == 6
\* SpecFunctions: "Open All Definitions" is given 0..MaxCandidates candidates
MaxCandidates == 3

VARIABLES
  jumpHistory,   \* the OptimizedHistory instance: [items, startIndex]
  capacity,      \* SpecHistory: the maxSize every push is given
  nextId,        \* SpecHistory: the next entry to push (entries are 1, 2, ...)
  lastOp,        \* SpecHistory: the last call: [op, arg, ret, before]
  hostConfig,    \* the editor's configuration of section gtags-hopper
  configCache,   \* ConfigCache.cache: key -> value, for the keys read so far
  pc,            \* where the jumpToDefinition handler is suspended
  req,           \* the locals of the running (or last) jumpToDefinition
  lastBack,      \* what the last jumpBack did
  call,          \* SpecFunctions: the function called, its arguments and result
  visibleTextEditors, \* vscode.window.visibleTextEditors
  pathToEditor   \* EditorCache.pathToEditor: path -> editor

vars == <<jumpHistory, capacity, nextId, lastOp, hostConfig, configCache, pc,
          req, lastBack, call, visibleTextEditors, pathToEditor>>
flowVars == <<hostConfig, configCache, pc, req, lastBack, call>>
editorVars == <<visibleTextEditors, pathToEditor>>

\* no function called yet
NoCall == [fn |-> "none"]

(***************************************************************************)
(* OptimizedHistory<T>.  An optional value (T | undefined) is a sequence   *)
(* of length at most one: <<>> is undefined.                               *)
(***************************************************************************)
Max(a, b) == IF a >= b THEN a ELSE b

\* F(v), with v evaluated once: const x = v; ... x ... x ...
With(v, F(_)) == CHOOSE y \in {F(x) : x \in {v}} : TRUE

\* new OptimizedHistory(): items = [], startIndex = 0
EmptyHistory == [items |-> <<>>, startIndex |-> 0]

\* no call made yet
NoOp == [op |-> "none", arg |-> <<>>, ret |-> <<>>, before |-> EmptyHistory]

\* a push that never advances startIndex
push_noEvict(h, item, maxSize) ==
  [items |-> Append(h.items, item), startIndex |-> h.startIndex]

\* push(item, maxSize)
push(h, item, maxSize) ==
  [items      |-> Append(h.items, item),
   startIndex |-> IF Len(h.items) >= maxSize THEN h.startIndex + 1
                                             ELSE h.startIndex]

\* a pop that only tests the array for emptiness
pop_arrayEmpty(h) ==
  IF Len(h.items) = 0
    THEN [h |-> h, ret |-> <<>>]
    ELSE [h   |-> [h EXCEPT !.items = SubSeq(h.items, 1, Len(h.items) - 1)],
          ret |-> <<h.items[Len(h.items)]>>]

\* pop(): the history after the call and the returned value
pop(h) ==
  IF Len(h.items) <= h.startIndex
    THEN [h |-> h, ret |-> <<>>]
    ELSE [h   |-> [h EXCEPT !.items = SubSeq(h.items, 1, Len(h.items) - 1)],
          ret |-> <<h.items[Len(h.items)]>>]

\* get length()
length(h) == Max(0, Len(h.items) - h.startIndex)

\* clear()
clear(h) == [items |-> <<>>, startIndex |-> 0]

\* the entries the class counts as valid: items[startIndex ..]
ValidEntries(h) == SubSeq(h.items, h.startIndex + 1, Len(h.items))

(***************************************************************************)
(* EditorCache.  An editor is [id, path]: the TextEditor object and        *)
(* document.uri.fsPath of the document it shows.                           *)
(***************************************************************************)
\* new Map(), and the map after clear()
EmptyEditors == [path \in {} |-> [id |-> 0, path |-> <<>>]]

\* visibleTextEditors.forEach(editor => pathToEditor.set(path, editor))
RECURSIVE setEach(_, _)
setEach(map, editors) ==
  IF editors = <<>> THEN map
  ELSE setEach([path \in DOMAIN map \cup {Head(editors).path} |->
                  IF path = Head(editors).path THEN Head(editors)
                                               ELSE map[path]],
               Tail(editors))

\* an update that does not clear the map first
update_noClear(map, editors) == setEach(map, editors)

\* update(): the map after the call
update(map, editors) == setEach(EmptyEditors, editors)

\* findByPath(filePath): the editor, or undefined
findByPath(map, filePath) ==
  IF filePath \in DOMAIN map THEN <<map[filePath]>> ELSE <<>>

(***************************************************************************)
(* Text.  A string is a sequence of one-character strings, a document is   *)
(* the sequence of its lines (document.getText().split('\n')).  Line       *)
(* numbers are zero-based as in the code: line i is lines[i + 1].          *)
(***************************************************************************)
Digits == <<"0", "1", "2", "3", "4", "5", "6", "7", "8", "9">>

\* \d
IsDigit(c) == \E i \in 1..Len(Digits) : Digits[i] = c

\* \w
IsWordChar(c) ==
  \/ IsDigit(c)
  \/ c \in {"a", "b", "c", "d", "e", "f", "g", "h", "i", "j", "k", "l", "m",
            "n", "o", "p", "q", "r", "s", "t", "u", "v", "w", "x", "y", "z",
            "_"}

\* \s
IsSpace(c) == c \in {" ", "\t"}

\* String.prototype.trim: from the first to the last non-blank character
trim(s) ==
  IF \A i \in 1..Len(s) : IsSpace(s[i]) THEN <<>>
  ELSE SubSeq(s,
         CHOOSE i \in 1..Len(s) :
           ~IsSpace(s[i]) /\ \A j \in 1..(i - 1) : IsSpace(s[j]),
         CHOOSE i \in 1..Len(s) :
           ~IsSpace(s[i]) /\ \A j \in (i + 1)..Len(s) : IsSpace(s[j]))

\* the literal p occurs in s at position i
MatchAt(s, i, p) ==
  /\ i >= 1
  /\ i + Len(p) - 1 <= Len(s)
  /\ SubSeq(s, i, i + Len(p) - 1) = p

\* String.prototype.startsWith / includes
startsWith(s, p) == MatchAt(s, 1, p)
includes(s, p) == \E i \in 1..(Len(s) + 1) : MatchAt(s, i, p)

\* \b between s[k - 1] and s[k] (k in 1..Len(s) + 1)
IsWordAt(s, k) == k \in 1..Len(s) /\ IsWordChar(s[k])
Boundary(s, k) == IsWordAt(s, k - 1) # IsWordAt(s, k)

\* s[a .. b - 1] consists of \s, of \w
SpacesIn(s, a, b) == \A k \in a..(b - 1) : IsSpace(s[k])
WordIn(s, a, b) == \A k \in a..(b - 1) : IsWordChar(s[k])

\* the words of a line: its maximal runs of \w (what the editor's
\* getWordRangeAtPosition can return for a cursor on the line)
WordsOf(s) ==
  {SubSeq(s, a, b - 1) :
     <<a, b>> \in {r \in (1..Len(s)) \X (2..(Len(s) + 1)) :
                     /\ r[1] < r[2]
                     /\ WordIn(s, r[1], r[2])
                     /\ Boundary(s, r[1])
                     /\ Boundary(s, r[2])}}

(***************************************************************************)
(* getCurrentFunctionScope                                                 *)
(***************************************************************************)
\* /^[^\/\*]*\b\w+\s*\([^)]*\)\s*\{?/.test(line): the trailing \s*\{? matches
\* the empty string, so the test is decided by the part up to the ")"
functionPattern(line) ==
  \E a \in 1..Len(line) :
    /\ \A k \in 1..(a - 1) : line[k] \notin {"/", "*"}
    /\ Boundary(line, a)
    /\ \E b \in (a + 1)..Len(line) :
         /\ WordIn(line, a, b)
         /\ \E p \in b..Len(line) :
              /\ SpacesIn(line, b, p)
              /\ line[p] = "("
              /\ \E q \in (p + 1)..Len(line) :
                   /\ \A k \in (p + 1)..(q - 1) : line[k] # ")"
                   /\ line[q] = ")"

ControlKeywords ==
  {<<"i", "f">>, <<"w", "h", "i", "l", "e">>, <<"f", "o", "r">>,
   <<"s", "w", "i", "t", "c", "h">>}

\* isFunction, for the trimmed line
isFunction(line) ==
  /\ functionPattern(line)
  /\ \A kw \in ControlKeywords : ~includes(line, kw)

\* the backward scan from the cursor line: the function start or -1
functionStartOf(lines, currentLine) ==
  With({i \in 0..currentLine : \E line \in {trim(lines[i + 1])} :
                                 isFunction(line)},
       LAMBDA found : IF found = {} THEN -1
                      ELSE CHOOSE i \in found : \A j \in found : j <= i)

\* the forward brace scan from line i, character k, at depth braceLevel: the
\* function end or -1
RECURSIVE braceScan(_, _, _, _, _)
braceScan(lines, functionStart, i, k, braceLevel) ==
  IF i >= Len(lines) THEN -1
  ELSE IF k > Len(lines[i + 1])
    THEN braceScan(lines, functionStart, i + 1, 1, braceLevel)
  ELSE IF lines[i + 1][k] = "{"
    THEN braceScan(lines, functionStart, i, k + 1, braceLevel + 1)
  ELSE IF lines[i + 1][k] = "}"
    THEN IF braceLevel - 1 = 0 /\ i > functionStart
           THEN i
           ELSE braceScan(lines, functionStart, i, k + 1, braceLevel - 1)
  ELSE braceScan(lines, functionStart, i, k + 1, braceLevel)

\* a locator that leaves the end at -1 when no closing brace is found
getCurrentFunctionScope_noDefault(lines, currentLine) ==
  With(functionStartOf(lines, currentLine), LAMBDA functionStart :
    IF functionStart = -1 THEN <<>>
    ELSE <<[start |-> functionStart,
            end   |-> braceScan(lines, functionStart, functionStart, 1, 0)]>>)

\* getCurrentFunctionScope(document, position): <<>> is null
getCurrentFunctionScope(lines, currentLine) ==
  With(functionStartOf(lines, currentLine), LAMBDA functionStart :
    IF functionStart = -1 THEN <<>>
    ELSE With(braceScan(lines, functionStart, functionStart, 1, 0),
           LAMBDA functionEnd :
             <<[start |-> functionStart,
                end   |-> IF functionEnd = -1 THEN Len(lines) - 1
                                              ELSE functionEnd]>>))

(***************************************************************************)
(* searchSymbolInRange                                                     *)
(***************************************************************************)
TypeKeywords ==
  {<<"i", "n", "t">>, <<"c", "h", "a", "r">>, <<"f", "l", "o", "a", "t">>,
   <<"d", "o", "u", "b", "l", "e">>, <<"v", "o", "i", "d">>,
   <<"s", "t", "r", "i", "n", "g">>, <<"a", "u", "t", "o">>,
   <<"c", "o", "n", "s", "t">>, <<"l", "e", "t">>, <<"v", "a", "r">>,
   <<"b", "o", "o", "l">>, <<"s", "i", "z", "e", "_", "t">>}

UsageKeywords ==
  {<<"p", "r", "i", "n", "t", "f">>, <<"s", "c", "a", "n", "f">>,
   <<"r", "e", "t", "u", "r", "n">>, <<"c", "o", "u", "t">>}

\* trimmedLine.startsWith('//') || trimmedLine.startsWith('/*')
isCommentLine(line) ==
  \E trimmedLine \in {trim(line)} :
    \/ startsWith(trimmedLine, <<"/", "/">>)
    \/ startsWith(trimmedLine, <<"/", "*">>)

\* new RegExp(`\\b${symbol}\\b`).test(line)
containsSymbol(line, symbol) ==
  \E i \in 1..Len(line) :
    /\ Boundary(line, i)
    /\ MatchAt(line, i, symbol)
    /\ Boundary(line, i + Len(symbol))

\* new RegExp(`\\b\\w+\\s+${symbol}\\s*[,)]`).test(line)
isParameter(line, symbol) ==
  \E a \in 1..Len(line) :
    /\ Boundary(line, a)
    /\ \E b \in (a + 1)..Len(line) :
         /\ WordIn(line, a, b)
         /\ \E c \in (b + 1)..Len(line) :
              /\ SpacesIn(line, b, c)
              /\ MatchAt(line, c, symbol)
              /\ \E e \in (c + Len(symbol))..Len(line) :
                   /\ SpacesIn(line, c + Len(symbol), e)
                   /\ line[e] \in {",", ")"}

\* new RegExp(`\\b(int|char|...|size_t)\\s+[^=]*\\b${symbol}\\b`).test(line)
isDeclaration(line, symbol) ==
  \E a \in 1..Len(line), kw \in TypeKeywords :
    /\ Boundary(line, a)
    /\ MatchAt(line, a, kw)
    /\ \E d \in (a + Len(kw) + 1)..Len(line) :
         /\ IsSpace(line[a + Len(kw)])
         /\ \A k \in (a + Len(kw))..(d - 1) : line[k] # "="
         /\ Boundary(line, d)
         /\ MatchAt(line, d, symbol)
         /\ Boundary(line, d + Len(symbol))

\* new RegExp(`for\\s*\\([^;]*\\b${symbol}\\b`).test(line)
isLoopVariable(line, symbol) ==
  \E a \in 1..Len(line) :
    /\ MatchAt(line, a, <<"f", "o", "r">>)
    /\ \E p \in (a + 3)..Len(line) :
         /\ SpacesIn(line, a + 3, p)
         /\ line[p] = "("
         /\ \E d \in (p + 1)..Len(line) :
              /\ \A k \in (p + 1)..(d - 1) : line[k] # ";"
              /\ Boundary(line, d)
              /\ MatchAt(line, d, symbol)
              /\ Boundary(line, d + Len(symbol))

\* new RegExp(`\\b${symbol}\\s*${ch}`).test(line), ch one of "=" and "("
isFollowedBy(line, symbol, ch) ==
  \E i \in 1..Len(line) :
    /\ Boundary(line, i)
    /\ MatchAt(line, i, symbol)
    /\ \E e \in (i + Len(symbol))..Len(line) :
         /\ SpacesIn(line, i + Len(symbol), e)
         /\ line[e] = ch

\* a chain that tests the call pattern before the assignment pattern
priorityOf_callFirst(line, symbol) ==
  IF isParameter(line, symbol) THEN 1
  ELSE IF isDeclaration(line, symbol) THEN 2
  ELSE IF isLoopVariable(line, symbol) THEN 2
  ELSE IF isFollowedBy(line, symbol, "(") THEN 3
  ELSE IF isFollowedBy(line, symbol, "=") THEN 5
  ELSE IF \E kw \in UsageKeywords : includes(line, kw) THEN 50
  ELSE 100

\* the if / else-if chain that gives a matching line its priority
priorityOf(line, symbol) ==
  IF isParameter(line, symbol) THEN 1
  ELSE IF isDeclaration(line, symbol) THEN 2
  ELSE IF isLoopVariable(line, symbol) THEN 2
  ELSE IF isFollowedBy(line, symbol, "=") THEN 5
  ELSE IF isFollowedBy(line, symbol, "(") THEN 3
  ELSE IF \E kw \in UsageKeywords : includes(line, kw) THEN 50
  ELSE 100

\* the loop over lines i .. last: the results pushed, in line order
RECURSIVE collectResults(_, _, _, _)
collectResults(symbol, lines, i, last) ==
  IF i > last THEN <<>>
  ELSE IF isCommentLine(lines[i + 1]) \/ ~containsSymbol(lines[i + 1], symbol)
    THEN collectResults(symbol, lines, i + 1, last)
  ELSE <<[line |-> i, priority |-> priorityOf(lines[i + 1], symbol)]>>
         \o collectResults(symbol, lines, i + 1, last)

\* results.sort((a, b) => a.priority - b.priority): a stable sort
RECURSIVE insertByPriority(_, _)
insertByPriority(sorted, r) ==
  IF sorted = <<>> THEN <<r>>
  ELSE IF sorted[Len(sorted)].priority <= r.priority THEN Append(sorted, r)
  ELSE Append(insertByPriority(SubSeq(sorted, 1, Len(sorted) - 1), r),
              sorted[Len(sorted)])

RECURSIVE sortByPriority(_)
sortByPriority(results) ==
  IF results = <<>> THEN <<>>
  ELSE insertByPriority(sortByPriority(SubSeq(results, 1, Len(results) - 1)),
                        results[Len(results)])

Min(a, b) == IF a <= b THEN a ELSE b

\* a search that returns every sorted result
searchSymbolInRange_all(symbol, lines, startLine, endLine) ==
  sortByPriority(collectResults(symbol, lines, startLine,
                                Min(endLine, Len(lines) - 1)))

\* searchSymbolInRange(symbol, document, startLine, endLine): the results of
\* the best priority (label and description are display text, left out)
searchSymbolInRange(symbol, lines, startLine, endLine) ==
  With(sortByPriority(collectResults(symbol, lines, startLine,
                                     Min(endLine, Len(lines) - 1))),
       LAMBDA sorted :
         IF sorted = <<>> THEN sorted
         ELSE SelectSeq(sorted,
                        LAMBDA r : r.priority = sorted[1].priority))

\* a fallback that always searches the whole file
localFallback_fileWide(symbol, lines, currentLine) ==
  searchSymbolInRange(symbol, lines, 0, Len(lines) - 1)

\* the fallback of jumpToDefinition: the function scope first, then the file
localFallback(symbol, lines, currentLine) ==
  With(getCurrentFunctionScope(lines, currentLine), LAMBDA functionScope :
    With(IF functionScope # <<>>
           THEN searchSymbolInRange(symbol, lines, functionScope[1].start,
                                    functionScope[1].end)
           ELSE <<>>,
         LAMBDA localResults :
           IF localResults = <<>>
             THEN searchSymbolInRange(symbol, lines, 0, Len(lines) - 1)
             ELSE localResults))

(***************************************************************************)
(* The external tool's output: GLOBAL_OUTPUT_REGEX and the candidate items *)
(***************************************************************************)
\* the positions at which a run of non-blank characters starts, ends
fieldStarts(t) ==
  {i \in 1..Len(t) : ~IsSpace(t[i]) /\ (i = 1 \/ IsSpace(t[i - 1]))}

fieldEnds(t) ==
  {i \in 1..Len(t) : ~IsSpace(t[i]) /\ (i = Len(t) \/ IsSpace(t[i + 1]))}

\* the k-th smallest member of a set of numbers
nth(S, k) == CHOOSE i \in S : Cardinality({j \in S : j < i}) = k - 1

\* line.trim().match(/^(\S+)\s+(\d+)\s+(\S+)\s+(.+)$/): <<>> is null.  Each
\* group but the last is followed by \s+, so it is a whole run of non-blank
\* characters: the first, second and third run of the trimmed line; the
\* greedy \s+ before (.+) takes every blank, so (.+) is the rest of the line
\* from its fourth run on.
GLOBAL_OUTPUT_REGEX(line) ==
  With(trim(line), LAMBDA t :
    With(<<fieldStarts(t), fieldEnds(t)>>, LAMBDA f :
      IF /\ Cardinality(f[1]) >= 4
         /\ \A k \in nth(f[1], 2)..nth(f[2], 2) : IsDigit(t[k])
        THEN <<[sym        |-> SubSeq(t, nth(f[1], 1), nth(f[2], 1)),
                lineNumStr |-> SubSeq(t, nth(f[1], 2), nth(f[2], 2)),
                file       |-> SubSeq(t, nth(f[1], 3), nth(f[2], 3)),
                code       |-> SubSeq(t, nth(f[1], 4), Len(t))]>>
        ELSE <<>>))

\* parseInt(lineNumStr, 10) of a string of digits
RECURSIVE parseInt(_)
parseInt(ds) ==
  IF ds = <<>> THEN 0
  ELSE 10 * parseInt(SubSeq(ds, 1, Len(ds) - 1))
         + ((CHOOSE i \in 1..Len(Digits) : Digits[i] = ds[Len(ds)]) - 1)

\* /^\d+$/.test(file)
isNumeric(file) == file # <<>> /\ \A k \in 1..Len(file) : IsDigit(file[k])

\* a parser that keeps the one-based line number of the output
globalItemOf_oneBased(line) ==
  With(GLOBAL_OUTPUT_REGEX(line), LAMBDA m :
    IF m = <<>> THEN <<>>
    ELSE IF isNumeric(m[1].file) THEN <<>>
    ELSE <<[file  |-> m[1].file,
            line  |-> parseInt(m[1].lineNumStr),
            local |-> FALSE]>>)

\* the candidate item of one output line in jumpToDefinition: <<>> is null.
\* local stands for the "(Local)" mark of the label; label and description
\* are display text.
globalItemOf(line) ==
  With(GLOBAL_OUTPUT_REGEX(line), LAMBDA m :
    IF m = <<>> THEN <<>>
    ELSE IF isNumeric(m[1].file) THEN <<>>
    ELSE <<[file  |-> m[1].file,
            line  |-> parseInt(m[1].lineNumStr) - 1,
            local |-> FALSE]>>)

\* lines.map(...).filter(v => v !== null)
RECURSIVE globalItems(_)
globalItems(lines) ==
  IF lines = <<>> THEN <<>>
  ELSE globalItemOf(Head(lines)) \o globalItems(Tail(lines))

\* the candidate item of one output line in jumpToReferences: <<>> is null
referenceItemOf(line) ==
  With(GLOBAL_OUTPUT_REGEX(line), LAMBDA m :
    IF m = <<>> THEN <<>>
    ELSE <<[file  |-> m[1].file,
            line  |-> parseInt(m[1].lineNumStr) - 1,
            local |-> FALSE]>>)

\* lines.map(...).filter(v => v !== null) of jumpToReferences
RECURSIVE referenceItems(_)
referenceItems(lines) ==
  IF lines = <<>> THEN <<>>
  ELSE referenceItemOf(Head(lines)) \o referenceItems(Tail(lines))

\* globalResult.trim().split('\n').filter(l => l.trim() !== '')
nonBlankLines(lines) == SelectSeq(lines, LAMBDA l : trim(l) # <<>>)

(***************************************************************************)
(* ConfigCache.  Of the keys the handlers read, the model keeps the three  *)
(* that decide what a command does; the others (viewColumn, usePreviewTab, *)
(* centerCursorAfterJumpBack) only select how an editor is shown.          *)
(***************************************************************************)
DefaultMaxHistory == 50

MaxHistoryValues == {1, DefaultMaxHistory}

HostConfigs ==
  [maxHistory           : MaxHistoryValues,
   multipleResultAction : {"quickPick", "firstMatch"},
   showSearchTime       : BOOLEAN]

\* new ConfigCache(): an empty map
EmptyCache == [k \in {} |-> FALSE]

\* ConfigCache.get(key, defaultValue): the value returned
configGet(cache, host, key) ==
  IF key \in DOMAIN cache THEN cache[key] ELSE host[key]

\* ConfigCache.get(key, defaultValue): the cache after the call
configCached(cache, host, key) ==
  IF key \in DOMAIN cache THEN cache ELSE (key :> host[key]) @@ cache

(***************************************************************************)
(* jumpToDefinition.  The handler runs in four pieces, separated by the    *)
(* awaits at which it is suspended: the external search (pc "searching"),  *)
(* the quick pick (pc "picking") and each openFileAtPosition (pc           *)
(* "opening").  req holds its locals and what it showed and opened.        *)
(***************************************************************************)
\* document.uri.fsPath of the active editor
ActiveFile == <<"m", ".", "c">>

NoRequest ==
  [maxHistory    |-> 0,        \* the maxSize given to jumpHistory.push
   document      |-> <<>>,     \* the lines of editor.document
   line          |-> 0,        \* position.line
   symbol        |-> <<>>,     \* the word under the cursor
   external      |-> "none",   \* execGlobalAsync: none, pending, resolved, rejected
   globalResult  |-> <<>>,     \* the lines of the external tool's stdout
   globalItems   |-> <<>>,     \* the items parsed from globalResult
   filteredItems |-> <<>>,
   localRuns     |-> 0,        \* how often the local fallback search ran
   localResults  |-> <<>>,     \* what the last local fallback search returned
   presented     |-> <<>>,     \* the items given to showQuickPick
   openQueue     |-> <<>>,     \* the targets still to be opened
   opened        |-> <<>>,     \* the targets navigated to, in order
   messages      |-> <<>>]     \* the messages shown, in order

Message(kind, text, detail) == [kind |-> kind, text |-> text, detail |-> detail]

\* localResults.map(...): the items of the local results
RECURSIVE localItems(_)
localItems(results) ==
  IF results = <<>> THEN <<>>
  ELSE <<[file |-> ActiveFile, line |-> Head(results).line, local |-> TRUE]>>
         \o localItems(Tail(results))

\* a catch block that runs no local search and reports the failure
catchBlock_reportOnly(r) ==
  [r EXCEPT !.messages = Append(@, Message("error", "global error",
                                           "err.message"))]

\* the catch block of the handler
catchBlock(r) ==
  With(localFallback(r.symbol, r.document, r.line), LAMBDA localResults :
     IF localResults = <<>>
       THEN [r EXCEPT
               !.localRuns = @ + 1,
               !.localResults = localResults,
               !.messages = Append(@, Message("error", "No definition found",
                                              "err.message"))]
       ELSE [r EXCEPT
               !.localRuns = @ + 1,
               !.localResults = localResults,
               !.opened = Append(@, [file  |-> ActiveFile,
                                     line  |-> localResults[1].line,
                                     local |-> TRUE]),
               !.messages = Append(@, Message("info",
                              "Found local definition", "global search failed"))])

\* the withProgress callback once execGlobalAsync has resolved with output
searchBlock(r, output) ==
  With(globalItems(nonBlankLines(output)), LAMBDA parsed :
    IF parsed = <<>>
      THEN With(localFallback(r.symbol, r.document, r.line),
             LAMBDA localResults :
               [r EXCEPT
                  !.external = "resolved",
                  !.globalResult = output,
                  !.globalItems = parsed,
                  !.localRuns = @ + 1,
                  !.localResults = localResults,
                  !.filteredItems = localItems(localResults)])
      ELSE [r EXCEPT
              !.external = "resolved",
              !.globalResult = output,
              !.globalItems = parsed,
              !.filteredItems = parsed])

\* a file map that keeps the line of the first item of each file
RECURSIVE fileMapOf_firstLine(_, _)
fileMapOf_firstLine(items, map) ==
  IF items = <<>> THEN map
  ELSE IF \E i \in 1..Len(map) : map[i].file = Head(items).file
    THEN fileMapOf_firstLine(Tail(items), map)
    ELSE fileMapOf_firstLine(Tail(items), Append(map, Head(items)))

\* the file map of "Open All Definitions": one entry per file, in the order
\* of first appearance, with the smallest line of the file
RECURSIVE fileMapOf(_, _)
fileMapOf(items, map) ==
  IF items = <<>> THEN map
  ELSE LET item == Head(items)
           at == {i \in 1..Len(map) : map[i].file = item.file}
       IN IF at = {}
            THEN fileMapOf(Tail(items), Append(map, item))
            ELSE LET i == CHOOSE j \in at : TRUE
                 IN IF item.line < map[i].line
                      THEN fileMapOf(Tail(items),
                                     [map EXCEPT ![i].line = item.line])
                      ELSE fileMapOf(Tail(items), map)

\* the end of the try block: the elapsed-time message
finishBlock(r, showSearchTime) ==
  IF showSearchTime
    THEN [r EXCEPT !.messages =
            Append(@, Message("info", "search took",
                     IF nonBlankLines(r.globalResult) # <<>> THEN "Global"
                                                             ELSE "Local"))]
    ELSE r

\* the documents, cursor lines and symbols a command is invoked on
DocLinePool ==
  {<<"f", "(", "i", "n", "t", " ", "x", ")", " ", "{">>,
   <<"x", " ", "=", " ", "1", ";", " ", "}">>,
   <<"/", "/", " ", "x">>}

Documents ==
  UNION {[1..n -> DocLinePool] : n \in 1..MaxDocLines}

\* the lines the external tool prints
OutputLinePool ==
  {<<"f", " ", "3", " ", "b", ".", "c", " ", "x">>,
   <<"f", " ", "1", "2", " ", "a", ".", "c", " ", "y">>,
   <<"f", " ", "7", " ", "1", "2", " ", "x">>}

Outputs ==
  UNION {[1..n -> OutputLinePool] : n \in 0..MaxOutputLines}

\* Spec runs the commands on two one-line documents (a line that matches
\* the symbol, a comment line) and on four outputs: no line, one usable line,
\* two usable lines, one unusable line
CommandDocuments ==
  {<<<<"x", " ", "=", " ", "1", ";", " ", "}">>>>, <<<<"/", "/", " ", "x">>>>}

CommandOutputs ==
  {<<>>,
   <<<<"f", " ", "3", " ", "b", ".", "c", " ", "x">>>>,
   <<<<"f", " ", "3", " ", "b", ".", "c", " ", "x">>,
     <<"f", " ", "1", "2", " ", "a", ".", "c", " ", "y">>>>,
   <<<<"f", " ", "7", " ", "1", "2", " ", "x">>>>}

\* the handler up to the await of the external search: the three checks
\* pass, the position is pushed on the history
InvokeOn(documents) ==
  /\ pc \in {"idle", "done"}
  /\ Len(jumpHistory.items) < MaxItems
  /\ \E document \in documents, line \in 0..(MaxDocLines - 1) :
       /\ line < Len(document)
       /\ \E symbol \in WordsOf(document[line + 1]) :
            LET maxHistory == configGet(configCache, hostConfig, "maxHistory")
                entry == [uri |-> ActiveFile, position |-> line]
            IN /\ configCache' =
                    configCached(configCache, hostConfig, "maxHistory")
               /\ jumpHistory' = push(jumpHistory, entry, maxHistory)
               /\ req' = [NoRequest EXCEPT !.maxHistory = maxHistory,
                                           !.document = document,
                                           !.line = line,
                                           !.symbol = symbol,
                                           !.external = "pending"]
               /\ pc' = "searching"
  /\ UNCHANGED <<editorVars, capacity, nextId, lastOp, call, hostConfig, lastBack>>

\* a handler that pushes the position before its three checks
InvokeRejected_pushFirst ==
  /\ pc \in {"idle", "done"}
  /\ Len(jumpHistory.items) < MaxItems
  /\ \E text \in {"No active editor found", "No symbol selected",
                  "No workspace folder found"} :
       req' = [NoRequest EXCEPT
                 !.messages = <<Message("error", text, "none")>>]
  /\ jumpHistory' = push(jumpHistory, [uri |-> ActiveFile, position |-> 0],
                         configGet(configCache, hostConfig, "maxHistory"))
  /\ pc' = "done"
  /\ UNCHANGED <<editorVars, capacity, nextId, lastOp, call, hostConfig,
                 configCache, lastBack>>

\* the handler returns at one of its three checks: no active editor, no word
\* under the cursor, no workspace folder
InvokeRejected ==
  /\ pc \in {"idle", "done"}
  /\ \E text \in {"No active editor found", "No symbol selected",
                  "No workspace folder found"} :
       req' = [NoRequest EXCEPT
                 !.messages = <<Message("error", text, "none")>>]
  /\ pc' = "done"
  /\ UNCHANGED <<editorVars, jumpHistory, capacity, nextId, lastOp, call, hostConfig,
                 configCache, lastBack>>

\* execGlobalAsync resolves: parsing, the in-line fallback and the dispatch
\* on the number of items
ExternalResolveWith(outputs) ==
  /\ pc = "searching"
  /\ \E output \in outputs, multipleAction \in
                             {configGet(configCache, hostConfig,
                                        "multipleResultAction")} :
       \E r \in {searchBlock(req, output)} :
          IF r.filteredItems = <<>>
            THEN /\ req' = [r EXCEPT !.messages =
                              Append(@, Message("info", "No definition found",
                                                "none"))]
                 /\ pc' = "done"
                 /\ UNCHANGED configCache
            ELSE /\ configCache' = configCached(configCache, hostConfig,
                                                "multipleResultAction")
                 /\ IF Len(r.filteredItems) = 1 \/ multipleAction = "firstMatch"
                      THEN /\ req' = [r EXCEPT
                                        !.openQueue = <<r.filteredItems[1]>>]
                           /\ pc' = "opening"
                      ELSE /\ req' = [r EXCEPT !.presented = r.filteredItems]
                           /\ pc' = "picking"
  /\ UNCHANGED <<editorVars, jumpHistory, capacity, nextId, lastOp, call, hostConfig, lastBack>>

\* execGlobalAsync rejects: the catch block runs
ExternalReject ==
  /\ pc = "searching"
  /\ req' = catchBlock([req EXCEPT !.external = "rejected"])
  /\ pc' = "done"
  /\ UNCHANGED <<editorVars, jumpHistory, capacity, nextId, lastOp, call, hostConfig,
                 configCache, lastBack>>

\* showQuickPick resolves with nothing: the handler returns
PickNothing ==
  /\ pc = "picking"
  /\ pc' = "done"
  /\ UNCHANGED <<editorVars, jumpHistory, capacity, nextId, lastOp, call, hostConfig,
                 configCache, req, lastBack>>

\* showQuickPick resolves with one of the items
PickItem ==
  /\ pc = "picking"
  /\ \E i \in 1..Len(req.presented) :
       req' = [req EXCEPT !.openQueue = <<req.presented[i]>>]
  /\ pc' = "opening"
  /\ UNCHANGED <<editorVars, jumpHistory, capacity, nextId, lastOp, call, hostConfig,
                 configCache, lastBack>>

\* showQuickPick resolves with "Open All Definitions"
PickAll ==
  /\ pc = "picking"
  /\ req' = [req EXCEPT !.openQueue = fileMapOf(req.filteredItems, <<>>)]
  /\ pc' = "opening"
  /\ UNCHANGED <<editorVars, jumpHistory, capacity, nextId, lastOp, call, hostConfig,
                 configCache, lastBack>>

\* openFileAtPosition resolves: the next target is opened, or the handler
\* ends with the elapsed-time message
OpenOk ==
  /\ pc = "opening"
  /\ LET r == [req EXCEPT !.opened = Append(@, Head(req.openQueue)),
                          !.openQueue = Tail(@)]
     IN IF r.openQueue # <<>>
          THEN /\ req' = r
               /\ pc' = "opening"
               /\ UNCHANGED configCache
          ELSE /\ req' = finishBlock(r,
                           configGet(configCache, hostConfig, "showSearchTime"))
               /\ configCache' =
                    configCached(configCache, hostConfig, "showSearchTime")
               /\ pc' = "done"
  /\ UNCHANGED <<editorVars, jumpHistory, capacity, nextId, lastOp, call, hostConfig, lastBack>>

\* openFileAtPosition rejects (openTextDocument or showTextDocument fails):
\* the catch block runs
OpenFail ==
  /\ pc = "opening"
  /\ req' = catchBlock([req EXCEPT !.openQueue = <<>>])
  /\ pc' = "done"
  /\ UNCHANGED <<editorVars, jumpHistory, capacity, nextId, lastOp, call, hostConfig,
                 configCache, lastBack>>

(***************************************************************************)
(* jumpBack, and the configuration-change listener of activate             *)
(***************************************************************************)
NoBack == [outcome |-> "none", target |-> <<>>]

\* jumpBack: the pop and the outcome of showing the popped position
JumpBack ==
  /\ IF length(jumpHistory) = 0
       THEN /\ lastBack' = [outcome |-> "No jump history available.",
                            target |-> <<>>]
            /\ UNCHANGED jumpHistory
       ELSE /\ jumpHistory' = pop(jumpHistory).h
            /\ \E outcome \in {"navigated", "open failed"} :
                 lastBack' = [outcome |-> outcome,
                              target |-> pop(jumpHistory).ret]
  /\ UNCHANGED <<editorVars, capacity, nextId, lastOp, call, hostConfig, configCache, pc, req>>

\* a configuration change that leaves the cache as it is
ConfigChange_noInvalidate ==
  /\ \E h \in HostConfigs :
       /\ Cardinality({key \in DOMAIN h : h[key] # hostConfig[key]}) = 1
       /\ hostConfig' = h
  /\ UNCHANGED <<editorVars, jumpHistory, capacity, nextId, lastOp, call, pc, req,
                 lastBack, configCache>>

\* the user changes a setting of the section: onDidChangeConfiguration fires
\* and the listener invalidates the cache
ConfigChange ==
  /\ \E h \in HostConfigs :
       /\ Cardinality({key \in DOMAIN h : h[key] # hostConfig[key]}) = 1
       /\ hostConfig' = h
  /\ configCache' = EmptyCache
  /\ UNCHANGED <<editorVars, jumpHistory, capacity, nextId, lastOp, call, pc, req, lastBack>>

Init ==
  /\ jumpHistory = EmptyHistory
  /\ capacity = 0
  /\ nextId = 1
  /\ lastOp = NoOp
  /\ hostConfig \in HostConfigs
  /\ configCache = EmptyCache
  /\ pc = "idle"
  /\ req = NoRequest
  /\ lastBack = NoBack
  /\ call = NoCall
  /\ visibleTextEditors = <<>>
  /\ pathToEditor = update(EmptyEditors, visibleTextEditors)

Invoke == InvokeOn(CommandDocuments)

ExternalResolve == ExternalResolveWith(CommandOutputs)

Next ==
  \/ Invoke
  \/ InvokeRejected
  \/ ExternalResolve
  \/ ExternalReject
  \/ PickNothing
  \/ PickItem
  \/ PickAll
  \/ OpenOk
  \/ OpenFail
  \/ JumpBack
  \/ ConfigChange

Spec == Init /\ [][Next]_vars

(***************************************************************************)
(* SpecRequest: one jumpToDefinition command, from its invocation to its   *)
(* end, on every document of up to MaxDocLines lines and every output of   *)
(* up to MaxOutputLines lines, under every configuration of the dispatch.  *)
(***************************************************************************)
RInvoke == pc = "idle" /\ InvokeOn(Documents)

RInvokeRejected == pc = "idle" /\ InvokeRejected

RExternalResolve == ExternalResolveWith(Outputs)

RNext ==
  \/ RInvoke
  \/ RInvokeRejected
  \/ RExternalResolve
  \/ ExternalReject
  \/ PickNothing
  \/ PickItem
  \/ PickAll
  \/ OpenOk
  \/ OpenFail

RInit == Init /\ hostConfig.maxHistory = DefaultMaxHistory

SpecRequest == RInit /\ [][RNext]_vars

(***************************************************************************)
(* jumpToReferences.  The handler is suspended at the external search (pc  *)
(* "refSearching"), the quick pick (pc "refPicking") and the opening of    *)
(* the picked item (pc "refOpening").                                      *)
(***************************************************************************)
\* a catch block that falls back to the local search of jumpToDefinition
referencesCatch_localFallback(r) == catchBlock(r)

\* the catch block of jumpToReferences
referencesCatch(r) ==
  [r EXCEPT !.messages = Append(@, Message("error", "global error",
                                           "err.message"))]

\* the withProgress callback of jumpToReferences once execGlobalAsync has
\* resolved with output
referencesBlock(r, output) ==
  With(nonBlankLines(output), LAMBDA lines :
    With(IF lines = <<>> THEN <<>> ELSE referenceItems(lines), LAMBDA items :
      [r EXCEPT !.external = "resolved",
                !.globalResult = output,
                !.globalItems = items,
                !.filteredItems = items]))

\* the handler up to the await of the external search
RefInvokeOn(documents) ==
  /\ pc \in {"idle", "done"}
  /\ Len(jumpHistory.items) < MaxItems
  /\ \E document \in documents, line \in 0..(MaxDocLines - 1) :
       /\ line < Len(document)
       /\ \E symbol \in WordsOf(document[line + 1]) :
            LET maxHistory == configGet(configCache, hostConfig, "maxHistory")
                entry == [uri |-> ActiveFile, position |-> line]
            IN /\ configCache' =
                    configCached(configCache, hostConfig, "maxHistory")
               /\ jumpHistory' = push(jumpHistory, entry, maxHistory)
               /\ req' = [NoRequest EXCEPT !.maxHistory = maxHistory,
                                           !.document = document,
                                           !.line = line,
                                           !.symbol = symbol,
                                           !.external = "pending"]
               /\ pc' = "refSearching"
  /\ UNCHANGED <<editorVars, capacity, nextId, lastOp, call, hostConfig, lastBack>>

\* the outputs of global -rx: those of SpecRequest, and outputs with a line
\* that GLOBAL_OUTPUT_REGEX does not match
UnusableLine == <<"f", " ", "x">>

ReferenceOutputs ==
  Outputs \cup {<<UnusableLine>>,
                <<UnusableLine, <<"f", " ", "3", " ", "b", ".", "c", " ", "x">>>>}

\* execGlobalAsync resolves: the items are built and given to the quick pick
RefResolve ==
  /\ pc = "refSearching"
  /\ \E output \in ReferenceOutputs :
       \E r \in {referencesBlock(req, output)} :
          IF r.filteredItems = <<>>
            THEN /\ req' = [r EXCEPT !.messages =
                              Append(@, Message("info", "No references found",
                                                "none"))]
                 /\ pc' = "done"
            ELSE /\ req' = [r EXCEPT !.presented = r.filteredItems]
                 /\ pc' = "refPicking"
  /\ UNCHANGED <<editorVars, jumpHistory, capacity, nextId, lastOp, call, hostConfig,
                 configCache, lastBack>>

\* execGlobalAsync rejects: the catch block runs
RefReject ==
  /\ pc = "refSearching"
  /\ req' = referencesCatch([req EXCEPT !.external = "rejected"])
  /\ pc' = "done"
  /\ UNCHANGED <<editorVars, jumpHistory, capacity, nextId, lastOp, call, hostConfig,
                 configCache, lastBack>>

\* showQuickPick resolves with nothing: the handler returns
RefPickNothing ==
  /\ pc = "refPicking"
  /\ pc' = "done"
  /\ UNCHANGED <<editorVars, jumpHistory, capacity, nextId, lastOp, call, hostConfig,
                 configCache, req, lastBack>>

\* showQuickPick resolves with one of the items
RefPickItem ==
  /\ pc = "refPicking"
  /\ \E i \in 1..Len(req.presented) :
       req' = [req EXCEPT !.openQueue = <<req.presented[i]>>]
  /\ pc' = "refOpening"
  /\ UNCHANGED <<editorVars, jumpHistory, capacity, nextId, lastOp, call, hostConfig,
                 configCache, lastBack>>

\* openTextDocument and showTextDocument resolve: the cursor is placed
RefOpenOk ==
  /\ pc = "refOpening"
  /\ req' = [req EXCEPT !.opened = Append(@, Head(req.openQueue)),
                        !.openQueue = <<>>]
  /\ pc' = "done"
  /\ UNCHANGED <<editorVars, jumpHistory, capacity, nextId, lastOp, call, hostConfig,
                 configCache, lastBack>>

\* openTextDocument or showTextDocument rejects: the catch block runs
RefOpenFail ==
  /\ pc = "refOpening"
  /\ req' = referencesCatch([req EXCEPT !.openQueue = <<>>])
  /\ pc' = "done"
  /\ UNCHANGED <<editorVars, jumpHistory, capacity, nextId, lastOp, call, hostConfig,
                 configCache, lastBack>>

(***************************************************************************)
(* SpecReferences: one jumpToReferences command, from its invocation to    *)
(* its end, on every document and every output of SpecRequest.             *)
(***************************************************************************)
RefInit ==
  /\ Init
  /\ hostConfig = [maxHistory |-> DefaultMaxHistory,
                   multipleResultAction |-> "quickPick",
                   showSearchTime |-> FALSE]

RefInvoke == pc = "idle" /\ RefInvokeOn(Documents)

RefNext ==
  \/ RefInvoke
  \/ RInvokeRejected
  \/ RefResolve
  \/ RefReject
  \/ RefPickNothing
  \/ RefPickItem
  \/ RefOpenOk
  \/ RefOpenFail

SpecReferences == RefInit /\ [][RefNext]_vars

(***************************************************************************)
(* SpecInvocations: jumpToDefinition and jumpToReferences commands, one    *)
(* after the other, each from its invocation to its end.                   *)
(***************************************************************************)
\* the dispatch settings are the defaults, maxHistory is any of its values
IInit ==
  /\ Init
  /\ hostConfig.multipleResultAction = "quickPick"
  /\ hostConfig.showSearchTime = FALSE

RefInvokeAgain == RefInvokeOn(CommandDocuments)

INext ==
  \/ Invoke
  \/ RefInvokeAgain
  \/ InvokeRejected
  \/ ExternalResolve
  \/ ExternalReject
  \/ PickNothing
  \/ PickItem
  \/ PickAll
  \/ OpenOk
  \/ OpenFail
  \/ RefResolve
  \/ RefReject
  \/ RefPickNothing
  \/ RefPickItem
  \/ RefOpenOk
  \/ RefOpenFail

SpecInvocations == IInit /\ [][INext]_vars

(***************************************************************************)
(* SpecHistory: one OptimizedHistory driven by push(., capacity), pop()    *)
(* and clear() with a capacity fixed at construction time.                 *)
(***************************************************************************)

HInit ==
  /\ jumpHistory = EmptyHistory
  /\ capacity \in 1..MaxCapacity
  /\ nextId = 1
  /\ lastOp = NoOp
  /\ hostConfig = [maxHistory |-> DefaultMaxHistory,
                   multipleResultAction |-> "quickPick",
                   showSearchTime |-> FALSE]
  /\ configCache = EmptyCache
  /\ pc = "idle"
  /\ req = NoRequest
  /\ lastBack = NoBack
  /\ call = NoCall
  /\ visibleTextEditors = <<>>
  /\ pathToEditor = update(EmptyEditors, visibleTextEditors)

HPush ==
  /\ nextId <= MaxPushes
  /\ jumpHistory' = push(jumpHistory, nextId, capacity)
  /\ nextId' = nextId + 1
  /\ lastOp' = [op |-> "push", arg |-> <<nextId>>, ret |-> <<>>,
                before |-> jumpHistory]
  /\ UNCHANGED <<editorVars, capacity, flowVars>>

HPop ==
  /\ jumpHistory' = pop(jumpHistory).h
  /\ lastOp' = [op |-> "pop", arg |-> <<>>, ret |-> pop(jumpHistory).ret,
                before |-> jumpHistory]
  /\ UNCHANGED <<editorVars, capacity, nextId, flowVars>>

HClear ==
  /\ jumpHistory' = clear(jumpHistory)
  /\ lastOp' = [op |-> "clear", arg |-> <<>>, ret |-> <<>>,
                before |-> jumpHistory]
  /\ UNCHANGED <<editorVars, capacity, nextId, flowVars>>

HNext == HPush \/ HPop \/ HClear

SpecHistory == HInit /\ [][HNext]_vars

(***************************************************************************)
(* SpecFunctions: one call of a function of the extension on an input      *)
(* drawn from a bounded set; call records the arguments and the result.    *)
(***************************************************************************)
\* the fields of the output lines given to the parser: a name, a number, a
\* path and a field that starts with a digit without being a number
ParseFields ==
  {<<"f">>, <<"4", "2">>, <<"b", ".", "c">>, <<"7", "x">>}

RECURSIVE joinFields(_, _)
joinFields(fields, sep) ==
  IF fields = <<>> THEN <<>>
  ELSE IF Len(fields) = 1 THEN fields[1]
  ELSE fields[1] \o sep \o joinFields(Tail(fields), sep)

\* the output lines: up to MaxParseFields fields, separated by one blank or
\* by a blank and a tab, with or without blanks around the line
ParseLines ==
  {pad \o joinFields(fields, sep) \o pad :
     fields \in UNION {[1..n -> ParseFields] : n \in 0..MaxParseFields},
     sep \in {<<" ">>, <<" ", "\t">>},
     pad \in {<<>>, <<" ">>}}

\* the lines of the documents given to searchSymbolInRange: a parameter, an
\* assignment, a comment, a declaration, a line without x
SearchLinePool ==
  {<<"f", "(", "i", "n", "t", " ", "x", ")", " ", "{">>,
   <<"x", " ", "=", " ", "1", ";", " ", "}">>,
   <<" ", "/", "*", " ", "x">>,
   <<"i", "n", "t", " ", "x", ";">>,
   <<"y", " ", "=", " ", "1", ";">>}

SearchDocuments ==
  UNION {[1..n -> SearchLinePool] : n \in 1..MaxSearchLines}

SearchSymbols == {<<"x">>}

\* the lines given to the priority chain: one for each pair of neighbouring
\* checks that both match, and one for each check that matches alone
PriorityLinePool ==
  {<<"f", "(", "i", "n", "t", " ", "x", ")", " ", "{">>,
   <<"i", "n", "t", " ", "x", " ", "=", " ", "1", ";">>,
   <<"f", "o", "r", " ", "(", "x", " ", "=", " ", "0", ";", ";", ")">>,
   <<"x", " ", "=", " ", "x", "(", "1", ")", ";">>,
   <<"x", " ", "=", " ", "1", ";", " ", "}">>,
   <<"r", "e", "t", "u", "r", "n", " ", "x", "(", "1", ")", ";">>,
   <<"x", "(", "1", ")", ";">>,
   <<"r", "e", "t", "u", "r", "n", " ", "x", ";">>,
   <<"y", " ", "=", " ", "x", ";">>}

\* the lines of the documents given to getCurrentFunctionScope: a function
\* start, a closing brace, a function whose name contains "if", a one-line
\* function, a declaration, an if
ScopeLinePool ==
  {<<"f", "(", "i", "n", "t", " ", "x", ")", " ", "{">>,
   <<"x", " ", "=", " ", "1", ";", " ", "}">>,
   <<"n", "o", "t", "i", "f", "y", "(", "x", ")", " ", "{">>,
   <<"g", "(", "x", ")", " ", "{", " ", "}">>,
   <<"i", "n", "t", " ", "x", ";">>,
   <<"i", "f", " ", "(", "x", ")", " ", "{">>}

ScopeDocuments ==
  UNION {[1..n -> ScopeLinePool] : n \in 1..MaxScopeLines}

\* the documents given to the local fallback: a function start that does
\* not hold the symbol, a line that closes it, a declaration, a comment
FallbackLinePool ==
  {<<"g", "(", ")", " ", "{">>,
   <<"x", " ", "=", " ", "1", ";", " ", "}">>,
   <<"i", "n", "t", " ", "x", ";">>,
   <<"/", "/", " ", "x">>}

FallbackDocuments ==
  UNION {[1..n -> FallbackLinePool] : n \in 1..MaxScopeLines}

FallbackSymbols == {<<"x">>}

FInit == Init /\ hostConfig = [maxHistory |-> DefaultMaxHistory,
                               multipleResultAction |-> "quickPick",
                               showSearchTime |-> FALSE]

\* line.trim().match(GLOBAL_OUTPUT_REGEX) and the item built from it
CallGlobalItemOf ==
  /\ call.fn = "none"
  /\ \E line \in ParseLines :
       call' = [fn |-> "globalItemOf", line |-> line, ret |-> globalItemOf(line)]
  /\ UNCHANGED <<editorVars, jumpHistory, capacity, nextId, lastOp, hostConfig,
                 configCache, pc, req, lastBack>>

\* searchSymbolInRange(symbol, document, startLine, endLine)
CallSearchSymbolInRange ==
  /\ call.fn = "none"
  /\ \E lines \in SearchDocuments, symbol \in SearchSymbols :
       \E startLine \in 0..(Len(lines) - 1), endLine \in 0..Len(lines) :
          call' = [fn |-> "searchSymbolInRange", symbol |-> symbol,
                   lines |-> lines, startLine |-> startLine,
                   endLine |-> endLine,
                   ret |-> searchSymbolInRange(symbol, lines, startLine,
                                               endLine)]
  /\ UNCHANGED <<editorVars, jumpHistory, capacity, nextId, lastOp, hostConfig,
                 configCache, pc, req, lastBack>>

\* the priority chain of searchSymbolInRange on a line that passed the
\* comment test and the symbol test
CallPriorityOf ==
  /\ call.fn = "none"
  /\ \E line \in PriorityLinePool \cup SearchLinePool,
        symbol \in SearchSymbols :
       /\ ~isCommentLine(line)
       /\ containsSymbol(line, symbol)
       /\ call' = [fn |-> "priorityOf", line |-> line, symbol |-> symbol,
                   ret |-> priorityOf(line, symbol)]
  /\ UNCHANGED <<editorVars, jumpHistory, capacity, nextId, lastOp, hostConfig,
                 configCache, pc, req, lastBack>>

\* getCurrentFunctionScope(document, position)
CallGetCurrentFunctionScope ==
  /\ call.fn = "none"
  /\ \E lines \in ScopeDocuments :
       \E currentLine \in 0..(Len(lines) - 1) :
          call' = [fn |-> "getCurrentFunctionScope", lines |-> lines,
                   currentLine |-> currentLine,
                   ret |-> getCurrentFunctionScope(lines, currentLine)]
  /\ UNCHANGED <<editorVars, jumpHistory, capacity, nextId, lastOp, hostConfig,
                 configCache, pc, req, lastBack>>

\* the local fallback of jumpToDefinition for a symbol under the cursor
CallLocalFallback ==
  /\ call.fn = "none"
  /\ \E lines \in FallbackDocuments :
       \E currentLine \in 0..(Len(lines) - 1) :
          \E symbol \in WordsOf(lines[currentLine + 1]) \cap FallbackSymbols :
             call' = [fn |-> "localFallback", symbol |-> symbol,
                      lines |-> lines, currentLine |-> currentLine,
                      ret |-> localFallback(symbol, lines, currentLine)]
  /\ UNCHANGED <<editorVars, jumpHistory, capacity, nextId, lastOp, hostConfig,
                 configCache, pc, req, lastBack>>

\* the candidates given to "Open All Definitions": two files, three lines
CandidatePool ==
  [file : {<<"a", ".", "c">>, <<"b", ".", "c">>}, line : 0..2, local : {FALSE}]

\* the file map built when "Open All Definitions" is picked
CallFileMapOf ==
  /\ call.fn = "none"
  /\ \E items \in UNION {[1..n -> CandidatePool] : n \in 0..MaxCandidates} :
       call' = [fn |-> "fileMapOf", items |-> items,
                ret |-> fileMapOf(items, <<>>)]
  /\ UNCHANGED <<editorVars, jumpHistory, capacity, nextId, lastOp,
                 hostConfig, configCache, pc, req, lastBack>>

FNext ==
  \/ CallGlobalItemOf
  \/ CallSearchSymbolInRange
  \/ CallPriorityOf
  \/ CallGetCurrentFunctionScope
  \/ CallLocalFallback
  \/ CallFileMapOf

SpecFunctions == FInit /\ [][FNext]_vars

(***************************************************************************)
(* SpecEditors: the editor cache under changes of the visible editors.     *)
(* activate builds the cache once; the onDidChangeVisibleTextEditors       *)
(* listener rebuilds it at every change; findByPath reads it.              *)
(***************************************************************************)
EditorPaths == {<<"m", ".", "c">>, <<"a", ".", "c">>, <<"b", ".", "c">>}

\* the editors that can be visible together: distinct TextEditor objects, two
\* of which may show the same file
VisibleEditorLists ==
  {editors \in UNION {[1..n -> [id : 1..MaxEditors, path : EditorPaths]] :
                        n \in 0..MaxEditors} :
     \A i, j \in 1..Len(editors) : i # j => editors[i].id # editors[j].id}

\* activate: updateEditorCache() on the editors visible then
EInit ==
  /\ jumpHistory = EmptyHistory
  /\ capacity = 0
  /\ nextId = 1
  /\ lastOp = NoOp
  /\ hostConfig = [maxHistory |-> DefaultMaxHistory,
                   multipleResultAction |-> "quickPick",
                   showSearchTime |-> FALSE]
  /\ configCache = EmptyCache
  /\ pc = "idle"
  /\ req = NoRequest
  /\ lastBack = NoBack
  /\ call = NoCall
  /\ visibleTextEditors \in VisibleEditorLists
  /\ pathToEditor = update(EmptyEditors, visibleTextEditors)

\* the visible editors change: onDidChangeVisibleTextEditors fires and the
\* listener calls update()
VisibleEditorsChange ==
  /\ \E editors \in VisibleEditorLists :
       /\ editors # visibleTextEditors
       /\ visibleTextEditors' = editors
       /\ pathToEditor' = update(pathToEditor, editors)
  /\ UNCHANGED <<jumpHistory, capacity, nextId, lastOp, hostConfig,
                 configCache, pc, req, lastBack, call>>

\* editorCache.findByPath(filePath), as openFileAtPosition and jumpBack call
\* it
FindByPath ==
  /\ \E filePath \in EditorPaths :
       call' = [fn |-> "findByPath", filePath |-> filePath,
                ret |-> findByPath(pathToEditor, filePath)]
  /\ UNCHANGED <<editorVars, jumpHistory, capacity, nextId, lastOp,
                 hostConfig, configCache, pc, req, lastBack>>

ENext ==
  \/ VisibleEditorsChange
  \/ FindByPath

SpecEditors == EInit /\ [][ENext]_vars

(***************************************************************************)
(* SpecEquivalence: OptimizedHistory and the plain array history of the    *)
(* earlier version of the handlers (src/unnamed/part_000, lines 840-884    *)
(* and 1052-1057) are given the same calls; the k-th push pushes k.        *)
(***************************************************************************)
\* jumpHistory.push(entry); if (jumpHistory.length > maxHistory) shift()
plainPush(a, item, maxHistory) ==
  IF Len(a) + 1 > maxHistory THEN Tail(Append(a, item)) ELSE Append(a, item)

\* jumpHistory.pop() of an array: the array after the call and the value
plainPop(a) ==
  IF a = <<>> THEN [h |-> a, ret |-> <<>>]
              ELSE [h |-> SubSeq(a, 1, Len(a) - 1), ret |-> <<a[Len(a)]>>]

\* what a caller sees of each call of a run on OptimizedHistory: the value
\* returned and the length after the call
RECURSIVE runOptimized(_, _, _, _)
runOptimized(h, ops, maxSize, next) ==
  IF ops = <<>> THEN <<>>
  ELSE IF Head(ops) = "push"
    THEN <<[ret |-> <<>>, length |-> length(push(h, next, maxSize))]>>
           \o runOptimized(push(h, next, maxSize), Tail(ops), maxSize,
                           next + 1)
    ELSE <<[ret |-> pop(h).ret, length |-> length(pop(h).h)]>>
           \o runOptimized(pop(h).h, Tail(ops), maxSize, next)

\* the same of a run on the plain array
RECURSIVE runPlain(_, _, _, _)
runPlain(a, ops, maxHistory, next) ==
  IF ops = <<>> THEN <<>>
  ELSE IF Head(ops) = "push"
    THEN <<[ret |-> <<>>, length |-> Len(plainPush(a, next, maxHistory))]>>
           \o runPlain(plainPush(a, next, maxHistory), Tail(ops), maxHistory,
                       next + 1)
    ELSE <<[ret |-> plainPop(a).ret, length |-> Len(plainPop(a).h)]>>
           \o runPlain(plainPop(a).h, Tail(ops), maxHistory, next)

HistoryRuns ==
  UNION {[1..n -> {"push", "pop"}] : n \in 0..MaxHistoryOps}

\* one run of both histories from empty, with one capacity
RunBoth ==
  /\ call.fn = "none"
  /\ \E ops \in HistoryRuns, maxSize \in 1..MaxCapacity :
       call' = [fn |-> "run", ops |-> ops, maxSize |-> maxSize,
                optimized |-> runOptimized(EmptyHistory, ops, maxSize, 1),
                plain |-> runPlain(<<>>, ops, maxSize, 1)]
  /\ UNCHANGED <<editorVars, jumpHistory, capacity, nextId, lastOp,
                 hostConfig, configCache, pc, req, lastBack>>

EqNext == RunBoth

SpecEquivalence == FInit /\ [][EqNext]_vars

(***************************************************************************)
(* Claims about the jump history.                                          *)
(***************************************************************************)
RECURSIVE Reverse(_)
Reverse(s) == IF s = <<>> THEN <<>> ELSE Append(Reverse(Tail(s)), Head(s))

\* the values returned by calling pop() until it returns undefined
RECURSIVE PopAll(_)
PopAll(h) ==
  IF pop(h).ret = <<>> THEN <<>> ELSE pop(h).ret \o PopAll(pop(h).h)

\* the contract of push on the sequence of valid entries (spec 4.1)
ContractPush(valid, item, maxSize) ==
  Append(IF Len(valid) >= maxSize THEN Tail(valid) ELSE valid, item)

\* C1: with a fixed capacity N >= 1, after any sequence of push(., N), pop()
\* and clear(), length is never greater than N.
C1_LengthWithinCapacity == length(jumpHistory) <= capacity

\* C1 witness: a push has just evicted and the history is full.
C1_Witness ==
  /\ lastOp.op = "push"
  /\ jumpHistory.startIndex > lastOp.before.startIndex
  /\ length(jumpHistory) = capacity

\* C2: right after push(x, N), pop() returns x and further pops return the
\* remaining valid entries in reverse push order.
C2_PushThenPopReturnsPushed ==
  lastOp.op = "push" =>
    PopAll(jumpHistory) =
      Reverse(ContractPush(ValidEntries(lastOp.before), lastOp.arg[1], capacity))

\* C3: a push made while length < maxSize discards nothing: length grows by
\* exactly one and every previously valid entry stays valid.
C3_PushBelowCapacityKeepsAll ==
  (lastOp.op = "push" /\ length(lastOp.before) < capacity) =>
    /\ length(jumpHistory) = length(lastOp.before) + 1
    /\ ValidEntries(jumpHistory) =
         Append(ValidEntries(lastOp.before), lastOp.arg[1])

\* C4: a push that discards anything discards the oldest valid entry, never a
\* newer one and never the entry being pushed.
C4_EvictionTakesOldest ==
  lastOp.op = "push" =>
    \/ ValidEntries(jumpHistory) =
         Append(ValidEntries(lastOp.before), lastOp.arg[1])
    \/ /\ ValidEntries(lastOp.before) # <<>>
       /\ ValidEntries(jumpHistory) =
            Append(Tail(ValidEntries(lastOp.before)), lastOp.arg[1])

\* C5: pop() on a history of length 0 returns undefined and leaves the history
\* unchanged; a pop never returns an entry outside the valid ones.
C5_PopOnEmpty ==
  lastOp.op = "pop" =>
    /\ length(lastOp.before) = 0 =>
         (lastOp.ret = <<>> /\ jumpHistory = lastOp.before)
    /\ lastOp.ret # <<>> =>
         /\ ValidEntries(lastOp.before) # <<>>
         /\ lastOp.ret[1] =
              ValidEntries(lastOp.before)[Len(ValidEntries(lastOp.before))]

\* C5 witness: pop() was called on a history whose entries were all evicted
\* or popped, while the array still holds evicted entries.
C5_Witness ==
  /\ lastOp.op = "pop"
  /\ length(lastOp.before) = 0
  /\ Len(lastOp.before.items) > 0
  /\ lastOp.before.startIndex > 0

\* C6: right after a push(position, maxSize) made by a command, length is at
\* most the maxSize of that push, also when an earlier push was given a
\* larger maxSize.
C6_LengthWithinMaxSizeOfPush ==
  pc = "searching" => length(jumpHistory) <= req.maxHistory

(***************************************************************************)
(* Claims about one jumpToDefinition request.                              *)
(***************************************************************************)
Range(s) == {s[i] : i \in DOMAIN s}

HasMessage(kind, text) ==
  \E m \in Range(req.messages) : m.kind = kind /\ m.text = text

\* C7: the local fallback search runs only in a request whose external
\* search failed or gave no usable item.
C7_LocalOnlyWithoutExternalItems ==
  req.localRuns > 0 => (req.external = "rejected" \/ req.globalItems = <<>>)

C9_TiedLocalMatchesPresented ==
  (/\ hostConfig.multipleResultAction = "quickPick"
   /\ req.localRuns > 0
   /\ Len(req.localResults) >= 2
   /\ req.opened # <<>>) =>
     req.presented = localItems(req.localResults)

\* C10: the targets presented and the targets navigated to in one request
\* are all external or all local.
C10_SingleSource ==
  \A a, b \in Range(req.presented) \cup Range(req.opened) : a.local = b.local

(***************************************************************************)
(* Claims about the candidate items built from the external output.        *)
(***************************************************************************)
\* C11: no candidate item presented or opened, by jumpToDefinition or by
\* jumpToReferences, has a file field that consists only of digits.
C11_NoNumericFileCandidate ==
  \A item \in Range(req.presented) \cup Range(req.opened)
                \cup Range(req.filteredItems) :
     ~isNumeric(item.file)

\* the blank-separated fields of a line, left to right
RECURSIVE FieldsOf(_)
FieldsOf(s) ==
  IF s = <<>> THEN <<>>
  ELSE IF IsSpace(Head(s)) THEN FieldsOf(Tail(s))
  ELSE LET blanks == {i \in 1..Len(s) : IsSpace(s[i])}
           n == IF blanks = {} THEN Len(s) + 1
                ELSE CHOOSE i \in blanks : \A j \in blanks : i <= j
       IN <<SubSeq(s, 1, n - 1)>> \o FieldsOf(SubSeq(s, n, Len(s)))

DigitValue(c) ==
  CASE c = "0" -> 0 [] c = "1" -> 1 [] c = "2" -> 2 [] c = "3" -> 3
    [] c = "4" -> 4 [] c = "5" -> 5 [] c = "6" -> 6 [] c = "7" -> 7
    [] c = "8" -> 8 [] c = "9" -> 9

AllDigits(s) == s # <<>> /\ \A i \in 1..Len(s) : s[i] \in Range(Digits)

\* the number a string of digits denotes, read from the left
RECURSIVE DecimalOf(_, _)
DecimalOf(s, acc) ==
  IF s = <<>> THEN acc
  ELSE DecimalOf(Tail(s), 10 * acc + DigitValue(Head(s)))

\* C12: an output line SYMBOL LINENUMBER FILEPATH CODE (four or more fields,
\* the second a number, the third a path) gives the item with line
\* LINENUMBER - 1 and file FILEPATH; a line not of that shape (or whose third
\* field is a number) gives no item.
C12_ItemOfOutputLine ==
  call.fn = "globalItemOf" =>
    LET fields == FieldsOf(call.line)
        shaped == Len(fields) >= 4 /\ AllDigits(fields[2])
    IN /\ (shaped /\ ~AllDigits(fields[3])) =>
            call.ret = <<[file  |-> fields[3],
                          line  |-> DecimalOf(fields[2], 0) - 1,
                          local |-> FALSE]>>
       /\ (shaped /\ AllDigits(fields[3])) => call.ret = <<>>
       /\ ~shaped => call.ret = <<>>

\* C12 witness: a line "f 42 b.c ..." was parsed into line 41 of b.c.
C12_Witness ==
  /\ call.fn = "globalItemOf"
  /\ call.ret = <<[file |-> <<"b", ".", "c">>, line |-> 41, local |-> FALSE]>>

(***************************************************************************)
(* Claims about the local search.                                          *)
(***************************************************************************)
\* the lines of start..end that are no comment-opener lines and hold the
\* symbol as a whole word
Qualifying(symbol, lines, start, end) ==
  {i \in start..end : /\ i <= Len(lines) - 1
                      /\ ~isCommentLine(lines[i + 1])
                      /\ containsSymbol(lines[i + 1], symbol)}

\* those of the lines Q whose priority is the least one over Q
BestOf(symbol, lines, Q) ==
  {i \in Q : \A j \in Q :
     priorityOf(lines[i + 1], symbol) <= priorityOf(lines[j + 1], symbol)}

\* the results name exactly the lines L, each once, with its priority
Names(results, symbol, lines, L) ==
  /\ {r.line : r \in Range(results)} = L
  /\ Len(results) = Cardinality(L)
  /\ \A r \in Range(results) :
       r.priority = priorityOf(lines[r.line + 1], symbol)

\* C13: searchSymbolInRange returns exactly the qualifying lines of
\* start..min(end, last line) whose priority is the least one among them, and
\* the empty list when no line qualifies.
C13_BestQualifyingLines ==
  call.fn = "searchSymbolInRange" =>
    Names(call.ret, call.symbol, call.lines,
          BestOf(call.symbol, call.lines,
                 Qualifying(call.symbol, call.lines, call.startLine,
                            call.endLine)))

\* C13 witness: two lines tie at the best priority and a third qualifying
\* line of a worse priority is left out.
C13_Witness ==
  /\ call.fn = "searchSymbolInRange"
  /\ Len(call.ret) = 2
  /\ Cardinality(Qualifying(call.symbol, call.lines, call.startLine,
                            call.endLine)) = 3

\* C14: a matching line gets the priority of the first check that matches,
\* in the order parameter (1), declaration or loop variable (2), assignment
\* (5), call (3), usage (50), none (100).
C14_FirstMatchingCheck ==
  call.fn = "priorityOf" =>
    LET parameter   == isParameter(call.line, call.symbol)
        declaration == \/ isDeclaration(call.line, call.symbol)
                       \/ isLoopVariable(call.line, call.symbol)
        assignment  == isFollowedBy(call.line, call.symbol, "=")
        invocation  == isFollowedBy(call.line, call.symbol, "(")
        usage       == \E kw \in UsageKeywords : includes(call.line, kw)
    IN /\ call.ret \in {1, 2, 5, 3, 50, 100}
       /\ parameter => call.ret = 1
       /\ (~parameter /\ declaration) => call.ret = 2
       /\ (~parameter /\ ~declaration /\ assignment) => call.ret = 5
       /\ (~parameter /\ ~declaration /\ ~assignment /\ invocation) =>
            call.ret = 3
       /\ (~parameter /\ ~declaration /\ ~assignment /\ ~invocation /\ usage)
            => call.ret = 50
       /\ (~parameter /\ ~declaration /\ ~assignment /\ ~invocation /\ ~usage)
            => call.ret = 100

\* C14 witness: a line that matches the assignment check and the call check
\* was given priority 5.
C14_Witness ==
  /\ call.fn = "priorityOf"
  /\ isFollowedBy(call.line, call.symbol, "=")
  /\ isFollowedBy(call.line, call.symbol, "(")
  /\ call.ret = 5

\* C15: when the scope locator returns a range that holds a qualifying line,
\* the fallback returns the best qualifying lines of the range and no line
\* outside it; otherwise it returns the best qualifying lines of the file.
C15_ScopeBeforeFile ==
  call.fn = "localFallback" =>
    LET scope   == getCurrentFunctionScope(call.lines, call.currentLine)
        inScope == IF scope = <<>> THEN {}
                   ELSE Qualifying(call.symbol, call.lines, scope[1].start,
                                   scope[1].end)
        inFile  == Qualifying(call.symbol, call.lines, 0,
                              Len(call.lines) - 1)
    IN Names(call.ret, call.symbol, call.lines,
             BestOf(call.symbol, call.lines,
                    IF inScope # {} THEN inScope ELSE inFile))

\* C15 witness: the fallback returned a line of the scope although a line
\* outside the scope holds the symbol at a better priority.
C15_Witness ==
  /\ call.fn = "localFallback"
  /\ call.ret # <<>>
  /\ \E i \in 0..(Len(call.lines) - 1) :
       /\ i \notin {r.line : r \in Range(call.ret)}
       /\ containsSymbol(call.lines[i + 1], call.symbol)
       /\ ~isCommentLine(call.lines[i + 1])
       /\ priorityOf(call.lines[i + 1], call.symbol) < call.ret[1].priority

(***************************************************************************)
(* Claims about the scope locator.                                         *)
(***************************************************************************)
\* a line that is an if, while, for or switch construct: it holds one of the
\* keywords as a word
IsControlConstruct(line) == \E kw \in ControlKeywords : containsSymbol(line, kw)

\* the lines at or above the cursor line that look like a function start
FunctionLike(lines, currentLine) ==
  {i \in 0..currentLine : /\ functionPattern(trim(lines[i + 1]))
                          /\ ~IsControlConstruct(lines[i + 1])}

\* C16: the start of the range is the nearest function-like line at or above
\* the cursor line that is no if/while/for/switch construct (a name that
\* merely contains those letters does not disqualify the line); there is no
\* range exactly when there is no such line.
C16_NearestFunctionLikeLine ==
  call.fn = "getCurrentFunctionScope" =>
    LET like == FunctionLike(call.lines, call.currentLine)
    IN /\ call.ret = <<>> <=> like = {}
       /\ call.ret # <<>> =>
            /\ call.ret[1].start \in like
            /\ \A i \in like : i <= call.ret[1].start

\* the open braces minus the closing braces of lines[start ..] up to and
\* including character k of line i
BraceDepth(lines, start, i, k) ==
  LET Count(ch) ==
        Cardinality({p \in UNION {{<<j, c>> : c \in 1..Len(lines[j + 1])} :
                                    j \in start..i} :
                       /\ lines[p[1] + 1][p[2]] = ch
                       /\ (p[1] < i \/ p[2] <= k)})
  IN Count("{") - Count("}")

\* the lines at which a closing brace brings the depth back to zero
Balancing(lines, start) ==
  {i \in start..(Len(lines) - 1) :
     \E k \in 1..Len(lines[i + 1]) :
        lines[i + 1][k] = "}" /\ BraceDepth(lines, start, i, k) = 0}

\* C17: the end of the range is the first line from the start line on at
\* which a closing brace brings the depth back to zero, the start line
\* included; without such a line it is the last line of the document.
C17_EndAtFirstBalancingBrace ==
  (call.fn = "getCurrentFunctionScope" /\ call.ret # <<>>) =>
    LET balancing == Balancing(call.lines, call.ret[1].start)
    IN IF balancing = {}
         THEN call.ret[1].end = Len(call.lines) - 1
         ELSE /\ call.ret[1].end \in balancing
              /\ \A i \in balancing : call.ret[1].end <= i

\* C18: a returned range satisfies 0 <= start <= end <= last line.
C18_RangeWithinDocument ==
  (call.fn = "getCurrentFunctionScope" /\ call.ret # <<>>) =>
    /\ 0 <= call.ret[1].start
    /\ call.ret[1].start <= call.ret[1].end
    /\ call.ret[1].end <= Len(call.lines) - 1

\* C18 witness: a range that ends before the last line, on a later line than
\* its start.
C18_Witness ==
  /\ call.fn = "getCurrentFunctionScope"
  /\ call.ret # <<>>
  /\ call.ret[1].start < call.ret[1].end
  /\ call.ret[1].end < Len(call.lines) - 1
\* C19: jumpToReferences never runs the local fallback search; every
\* candidate it presents or opens is an item of the external output; when
\* the external search fails or gives no usable line, nothing is presented
\* and nothing is opened.
C19_ReferencesExternalOnly ==
  /\ req.localRuns = 0
  /\ req.localResults = <<>>
  /\ \A item \in Range(req.presented) \cup Range(req.openQueue)
                                        \cup Range(req.opened) :
       /\ ~item.local
       /\ req.external = "resolved"
       /\ item \in Range(referenceItems(nonBlankLines(req.globalResult)))
  /\ (req.external = "rejected" \/ req.globalItems = <<>>) =>
       /\ req.presented = <<>>
       /\ req.openQueue = <<>>
       /\ req.opened = <<>>

\* the external search of a jumpToReferences failed on a document whose
\* cursor line holds the symbol: the command ended with the error, nothing
\* presented
C19_Witness ==
  /\ pc = "done"
  /\ req.external = "rejected"
  /\ HasMessage("error", "global error")
  /\ localFallback(req.symbol, req.document, req.line) # <<>>
  /\ req.presented = <<>>

\* what C20 says of one jumpBack: with no entry to go back to it shows the
\* information message, navigates nowhere and leaves the history as it is;
\* otherwise it removes the newest entry, and only that one, and navigates
\* to it
BackReportsOrNavigates ==
  IF length(jumpHistory) = 0
    THEN /\ lastBack' = [outcome |-> "No jump history available.",
                          target |-> <<>>]
         /\ jumpHistory' = jumpHistory
    ELSE /\ lastBack'.outcome \in {"navigated", "open failed"}
         /\ lastBack'.target =
              <<ValidEntries(jumpHistory)[Len(ValidEntries(jumpHistory))]>>
         /\ ValidEntries(jumpHistory') =
              SubSeq(ValidEntries(jumpHistory), 1,
                     Len(ValidEntries(jumpHistory)) - 1)

\* the history a jump leaves is not empty to jumpBack: it holds the position
\* the jump has just pushed, and that position is the one jumpBack pops
JumpLeavesEntryToGoBackTo ==
  /\ length(jumpHistory') > 0
  /\ pop(jumpHistory').ret = <<[uri |-> ActiveFile, position |-> req'.line]>>

\* C20: jumpBack on an empty history shows the 'No jump history available.'
\* information, navigates nowhere, raises no error and leaves the history
\* empty; jumpBack on a non-empty history, as the history is right after a
\* jump, removes exactly one entry and navigates to it.
C20_BackOnEmptyAndNonEmpty ==
  [][/\ JumpBack => BackReportsOrNavigates
     /\ Invoke => JumpLeavesEntryToGoBackTo]_vars

\* C21: every failure inside a command ends in a message of the handler and
\* does not leave the handler: a rejected external search and a rejected
\* open in jumpToDefinition add a message, and jumpBack never ends with the
\* rejection of openTextDocument or showTextDocument leaving it.
C21_FailuresEndInMessage ==
  [][/\ ExternalReject => Len(req'.messages) > Len(req.messages)
     /\ OpenFail => Len(req'.messages) > Len(req.messages)
     /\ JumpBack => lastBack'.outcome # "open failed"]_vars

(***************************************************************************)
(* Claims about the result dispatch of jumpToDefinition.                   *)
(***************************************************************************)
\* the candidates of a request: the items of the search, or the local
\* matches of the catch block when the external search failed
CandidatesOf(r) ==
  IF r.external = "rejected" THEN localItems(r.localResults)
                             ELSE r.filteredItems

\* what a request may have opened: with no choice list presented, the first
\* candidate only; with a choice list, candidates of the list or the targets
\* of "Open All Definitions"
OnlyChosenOpened ==
  IF req.presented = <<>>
    THEN Range(req.opened) \subseteq
           (IF CandidatesOf(req) = <<>> THEN {} ELSE {CandidatesOf(req)[1]})
    ELSE Range(req.opened) \subseteq
           Range(req.presented) \cup Range(fileMapOf(req.presented, <<>>))

\* the dispatch the claim asks of the step that ends the search: one
\* candidate or firstMatch, the first candidate and no choice list; two or
\* more candidates otherwise, the choice list and nothing opened yet
DispatchedAsConfigured ==
  CandidatesOf(req') # <<>> =>
    IF Len(CandidatesOf(req')) = 1
         \/ hostConfig.multipleResultAction = "firstMatch"
      THEN /\ req'.presented = <<>>
           /\ Range(req'.openQueue) \cup Range(req'.opened)
                = {CandidatesOf(req')[1]}
      ELSE /\ req'.presented = CandidatesOf(req')
           /\ req'.openQueue = <<>>
           /\ req'.opened = <<>>

\* C22: with one candidate or under firstMatch, jumpToDefinition opens the
\* first candidate and presents no choice list; with two or more candidates
\* under quickPick it presents them, opens only what the user selects and
\* nothing when the user cancels.
C22_DispatchOfCandidates ==
  [][/\ (ExternalResolve \/ ExternalReject) => DispatchedAsConfigured
     /\ PickNothing => (req'.opened = <<>> /\ req'.openQueue = <<>>)
     /\ OnlyChosenOpened']_vars

(***************************************************************************)
(* Claims about the configuration cache.                                   *)
(***************************************************************************)
\* the next read of every key returns the host's current value
NextReadIsCurrent ==
  \A key \in DOMAIN hostConfig :
     configGet(configCache, hostConfig, key) = hostConfig[key]

\* C23: the configuration cache is never stale: in every state the next read
\* of a key returns the host's current value, and a step that is not a
\* configuration change keeps every value already read.
C23_CacheNeverStale ==
  [][/\ NextReadIsCurrent'
     /\ ~ConfigChange =>
          \A key \in DOMAIN configCache :
             /\ key \in DOMAIN configCache'
             /\ configCache'[key] = configCache[key]]_vars

\* C23 witness: a request read maxHistory, the setting was changed since (the
\* cache no longer holds it and the host's value differs from the one read)
\* and another key has been read after the change.
C23_Witness ==
  /\ req.maxHistory # 0
  /\ req.maxHistory # hostConfig.maxHistory
  /\ "maxHistory" \notin DOMAIN configCache
  /\ "multipleResultAction" \in DOMAIN configCache

(***************************************************************************)
(* Claims about the editor cache.                                          *)
(***************************************************************************)
\* C24: after activation and after every change of the visible editors, the
\* editor cache answers for the editors visible at that event: findByPath
\* returns an editor only if it was visible then and shows that path, returns
\* one for every path that had a visible editor, and none for a path that
\* had no visible editor.
C24_CacheHoldsVisibleEditors ==
  \A filePath \in EditorPaths :
     LET found   == findByPath(pathToEditor, filePath)
         showing == {e \in Range(visibleTextEditors) : e.path = filePath}
     IN /\ found # <<>> => found[1] \in showing
        /\ showing = {} <=> found = <<>>

\* C24 witness: findByPath returned an editor for a path, the visible editors
\* changed since, and the cache now has no editor for that path.
C24_Witness ==
  /\ call.fn = "findByPath"
  /\ call.ret # <<>>
  /\ findByPath(pathToEditor, call.filePath) = <<>>
  /\ visibleTextEditors # <<>>

(***************************************************************************)
(* Claims about the two versions of the history.                           *)
(***************************************************************************)
\* C25: for every sequence of push and pop with one capacity N >= 1,
\* OptimizedHistory and the plain array history give the same pop results
\* and the same length after every call.
C25_SameAsPlainArray ==
  call.fn = "run" => call.optimized = call.plain

(***************************************************************************)
(* Claims about the history as the commands use it.                        *)
(***************************************************************************)
\* the position a jumpBack issued on history h navigates to, if any
BackTargetOf(h) == IF length(h) = 0 THEN <<>> ELSE pop(h).ret

\* C26: when a jumpToDefinition has navigated to its target, a jumpBack
\* issued next returns to the position the command was invoked from, also
\* when a jumpBack ran while the external search of the command was pending.
C26_BackReturnsToInvocation ==
  [][(OpenOk /\ pc' = "done") =>
       BackTargetOf(jumpHistory') =
         <<[uri |-> ActiveFile, position |-> req.line]>>]_vars

\* an invocation of jumpToDefinition or jumpToReferences that passes the
\* three checks
PassingInvocation == Invoke \/ RefInvokeAgain

\* C27: an invocation of jumpToDefinition or jumpToReferences that passes its
\* checks makes exactly one push, of the position it was invoked from, in the
\* step that starts the external search; no later step of the command, and
\* no invocation that fails a check, changes the history.
C27_OnePushPerInvocation ==
  [][/\ PassingInvocation =>
          /\ jumpHistory' = push(jumpHistory,
                                 [uri |-> ActiveFile, position |-> req'.line],
                                 req'.maxHistory)
          /\ Len(jumpHistory'.items) = Len(jumpHistory.items) + 1
          /\ req'.external = "pending"
     /\ ~PassingInvocation => jumpHistory' = jumpHistory]_vars

\* C27 witness: three commands have run, the last was a jumpToReferences that
\* navigated nowhere, and the history holds three pushed positions.
C27_Witness ==
  /\ pc = "done"
  /\ req.external = "rejected"
  /\ HasMessage("error", "global error")
  /\ req.opened = <<>>
  /\ Len(jumpHistory.items) = 3

(***************************************************************************)
(* More claims about the scope locator.                                    *)
(***************************************************************************)
\* C28: a range returned by getCurrentFunctionScope contains the cursor line:
\* start <= cursor line <= end.
C28_CursorInsideRange ==
  (call.fn = "getCurrentFunctionScope" /\ call.ret # <<>>) =>
    /\ call.ret[1].start <= call.currentLine
    /\ call.currentLine <= call.ret[1].end

(***************************************************************************)
(* Claims about "Open All Definitions" and the elapsed-time message.       *)
(***************************************************************************)
\* the position of the first candidate of a file
FirstOf(items, file) ==
  CHOOSE i \in 1..Len(items) :
     /\ items[i].file = file
     /\ \A j \in 1..(i - 1) : items[j].file # file

\* C29: the targets of "Open All Definitions" are the distinct files of the
\* candidates, each once, each at the smallest line of its candidates, in
\* the order in which the files first appear among the candidates.
C29_OpenAllTargets ==
  /\ call.fn = "fileMapOf" =>
       /\ {t.file : t \in Range(call.ret)} = {c.file : c \in Range(call.items)}
       /\ \A i, j \in 1..Len(call.ret) :
            /\ i # j => call.ret[i].file # call.ret[j].file
            /\ i < j => FirstOf(call.items, call.ret[i].file)
                          < FirstOf(call.items, call.ret[j].file)
       /\ \A i \in 1..Len(call.ret) :
            /\ \E c \in Range(call.items) :
                 c.file = call.ret[i].file /\ c.line = call.ret[i].line
            /\ \A c \in Range(call.items) :
                 c.file = call.ret[i].file => call.ret[i].line <= c.line

\* C29 witness: three candidates in two files; the file of the first candidate
\* comes again as the third, with a smaller line.
C29_Witness ==
  /\ call.fn = "fileMapOf"
  /\ Len(call.items) = 3
  /\ Len(call.ret) = 2
  /\ call.items[3].file = call.items[1].file
  /\ call.items[3].line < call.items[1].line
  /\ call.ret[1].line = call.items[3].line

\* C30: an elapsed-time message is labelled Local exactly when the targets
\* the request opened came from the local fallback, and Global exactly when
\* they came from the output of the external tool.
C30_SearchTimeLabel ==
  \A m \in Range(req.messages) :
     m.text = "search took" =>
       /\ req.opened # <<>>
       /\ m.detail = "Local" <=> \A t \in Range(req.opened) : t.local
       /\ m.detail = "Global" <=> \A t \in Range(req.opened) : ~t.local

=============================================================================
